---------------------------- MODULE Spec2Model ----------------------------
(***************************************************************************)
(* A model of expect-firestore's Database (src/src/database.js, the first  *)
(* class of the file), the Batch factories and assert.                     *)
(*                                                                         *)
(* Representation of JavaScript values                                     *)
(*   - a string that the code takes apart or builds (a path, an update     *)
(*     key, a message) is a sequence of atoms: "/" is the path separator,  *)
(*     "." the separator of an update key and the path segment '.', every  *)
(*     other atom a run of characters holding neither;                     *)
(*   - an enumerated string (a method, an expectation, a state) is a       *)
(*     TLA+ string;                                                        *)
(*   - a value is a tagged record: Undefined, Null, Bool, Num, Str, Obj (a *)
(*     function from property names, themselves strings, to values) or Ref *)
(*     (a reference to the `fields` object of a fixture document, whose    *)
(*     content the heap holds);                                            *)
(*   - an object with optional properties is a function whose DOMAIN holds *)
(*     the properties it has.                                              *)
(***************************************************************************)
EXTENDS Integers, Sequences, FiniteSets, TLC

-----------------------------------------------------------------------------
(* Strings and node's posix `path` module                                  *)

Slash == "/"
Dot == "."
DotDot == ".."

MaxOf(S) == CHOOSE x \in S : \A y \in S : y <= x

\* Array.prototype.join on an array of strings.
RECURSIVE JoinStrings(_, _)
JoinStrings(parts, sep) ==
    IF Len(parts) = 0 THEN <<>>
    ELSE IF Len(parts) = 1 THEN parts[1]
    ELSE parts[1] \o sep \o JoinStrings(Tail(parts), sep)

\* String.prototype.split on a one-atom separator.
RECURSIVE SplitString(_, _)
SplitString(s, sep) ==
    IF \A i \in 1..Len(s) : s[i] # sep THEN <<s>>
    ELSE LET k == CHOOSE i \in 1..Len(s) :
                      s[i] = sep /\ \A j \in 1..(i - 1) : s[j] # sep
         IN  <<SubSeq(s, 1, k - 1)>> \o SplitString(SubSeq(s, k + 1, Len(s)), sep)

\* Path.basename: the last segment, trailing separators dropped.
basename(path) ==
    LET named == {i \in 1..Len(path) : path[i] # Slash}
    IN  IF named = {} THEN <<>>
        ELSE LET end == MaxOf(named)
                 before == {i \in 1..end : path[i] = Slash}
                 start == IF before = {} THEN 1 ELSE MaxOf(before) + 1
             IN  SubSeq(path, start, end)

\* Path.dirname: what precedes the last segment, '.' when nothing does.
dirname(path) ==
    IF Len(path) = 0 THEN <<Dot>>
    ELSE LET hasRoot == path[1] = Slash
             cuts == {i \in 2..Len(path) :
                         /\ path[i] = Slash
                         /\ \E j \in (i + 1)..Len(path) : path[j] # Slash}
         IN  IF cuts = {} THEN (IF hasRoot THEN <<Slash>> ELSE <<Dot>>)
             ELSE IF hasRoot /\ MaxOf(cuts) = 2 THEN <<Slash, Slash>>
             ELSE SubSeq(path, 1, MaxOf(cuts) - 1)

\* normalizeString of node's path: drops '' and '.', resolves '..'.
RECURSIVE normalizeSegments(_, _, _)
normalizeSegments(segs, res, allowAboveRoot) ==
    IF Len(segs) = 0 THEN res
    ELSE LET s == Head(segs)
             next ==
                 IF s = <<>> \/ s = <<Dot>> THEN res
                 ELSE IF s = <<DotDot>>
                 THEN IF Len(res) > 0 /\ res[Len(res)] # <<DotDot>>
                      THEN SubSeq(res, 1, Len(res) - 1)
                      ELSE IF allowAboveRoot THEN Append(res, s) ELSE res
                 ELSE Append(res, s)
         IN  normalizeSegments(Tail(segs), next, allowAboveRoot)

\* Path.normalize, from the normalized segments joined by '/'.
normalized(body, isAbsolute, trailingSeparator) ==
    IF Len(body) = 0
    THEN IF isAbsolute THEN <<Slash>>
         ELSE IF trailingSeparator THEN <<Dot, Slash>> ELSE <<Dot>>
    ELSE (IF isAbsolute THEN <<Slash>> ELSE <<>>)
         \o body
         \o (IF trailingSeparator THEN <<Slash>> ELSE <<>>)

\* Path.normalize.
normalize(path) ==
    IF Len(path) = 0 THEN <<Dot>>
    ELSE normalized(
             JoinStrings(normalizeSegments(SplitString(path, Slash), <<>>,
                                           path[1] # Slash),
                         <<Slash>>),
             path[1] = Slash, path[Len(path)] = Slash)

\* Path.join of two arguments: the non-empty ones joined by '/', normalized.
PathJoin(a, b) ==
    IF Len(a) = 0 /\ Len(b) = 0 THEN <<Dot>>
    ELSE normalize(JoinStrings(SelectSeq(<<a, b>>, LAMBDA p : Len(p) > 0),
                               <<Slash>>))

-----------------------------------------------------------------------------
(* JavaScript values                                                       *)

Undefined == [t |-> "undefined"]
Null == [t |-> "null"]
Bool(b) == [t |-> "bool", b |-> b]
Num(n) == [t |-> "num", n |-> n]
\* An object literal: a function from property names to values.
Obj(o) == [t |-> "obj", o |-> o]
Str(s) == [t |-> "str", s |-> s]
\* A reference to the `fields` object of a fixture document.
Ref(id) == [t |-> "ref", id |-> id]

EmptyObject == [k \in {} |-> Null]

\* ToBoolean of a value, as `x ? a : b`, `x || y` and `!!x` apply it.
Truthy(v) ==
    CASE v.t = "undefined" -> FALSE
      [] v.t = "null" -> FALSE
      [] v.t = "bool" -> v.b
      [] v.t = "num" -> v.n # 0
      [] v.t = "str" -> v.s # ""
      [] OTHER -> TRUE

\* obj.name of an object with optional properties: undefined when missing.
Prop(obj, name) == IF name \in DOMAIN obj THEN obj[name] ELSE Undefined

\* The value a reference or a literal denotes in heap h, as JSON.stringify
\* writes it when a request is sent.
Deref(v, h) == IF v.t = "ref" THEN Obj(h[v.id]) ELSE v

-----------------------------------------------------------------------------
(* object-set: set(obj, key, value), dotted-path assignment                *)

\* obj with the property chain `keys` set to value, an intermediate
\* property that holds no object being replaced by a new object.
\* o with property k set to v.
WithProperty(o, k, v) == [x \in DOMAIN o \cup {k} |-> IF x = k THEN v ELSE o[x]]

\* The object under property k that the assignment descends into.
ChildObject(o, k) ==
    IF k \in DOMAIN o /\ o[k].t = "obj" THEN o[k].o ELSE EmptyObject

RECURSIVE SetPath(_, _, _)
SetPath(o, keys, value) ==
    IF Len(keys) = 1 THEN WithProperty(o, Head(keys), value)
    ELSE WithProperty(o, Head(keys),
             Obj(SetPath(ChildObject(o, Head(keys)), Tail(keys), value)))

\* set(obj, key, value): the key is split at its dots.
ObjectSet(o, key, value) == SetPath(o, SplitString(key, Dot), value)

-----------------------------------------------------------------------------
(* The document tree (Database.getCollection .. getDocuments)              *)
(* Collections is a sequence of [name, docs] entries in the insertion      *)
(* order of the object's keys; a Collection is a sequence of documents     *)
(* [key, fields, collections], fields being a reference into the heap.     *)

\* The properties every plain object inherits from Object.prototype: a
\* property read finds them when the object has no own property of the name.
PrototypeNames ==
    { <<"constructor">>, <<"toString">>, <<"toLocaleString">>, <<"valueOf">>,
      <<"hasOwnProperty">>, <<"isPrototypeOf">>, <<"propertyIsEnumerable">>,
      <<"__proto__">>, <<"__defineGetter__">>, <<"__defineSetter__">>,
      <<"__lookupGetter__">>, <<"__lookupSetter__">> }

\* What a lookup yields: an array of documents, a member of
\* Object.prototype (a function, or the prototype itself: truthy, and no
\* array), or an error thrown on the way.
Arr(docs) == [t |-> "array", docs |-> docs]
Inherited(name) == [t |-> "inherited", name |-> name]
Thrown(type) == [t |-> "thrown", error |-> type]

\* collections[collectionName] || []
CollectionNamed(colls, collectionName) ==
    IF \E i \in 1..Len(colls) : colls[i].name = collectionName
    THEN Arr(colls[CHOOSE i \in 1..Len(colls) : colls[i].name = collectionName].docs)
    ELSE IF collectionName \in PrototypeNames THEN Inherited(collectionName)
    ELSE Arr(<<>>)

\* Array.prototype.find with doc => doc.key == docId
FirstWithKey(docs, docId) ==
    IF \E i \in 1..Len(docs) : docs[i].key = docId
    THEN docs[CHOOSE i \in 1..Len(docs) :
                  /\ docs[i].key = docId
                  /\ \A j \in 1..(i - 1) : docs[j].key # docId]
    ELSE Undefined

\* collection.find(doc => doc.key == docId): a TypeError when the
\* collection has no find, an error getCollection threw goes on.
FindByKey(collection, docId) ==
    CASE collection.t = "thrown" -> collection
      [] collection.t = "inherited" -> Thrown("TypeError")
      [] OTHER -> FirstWithKey(collection.docs, docId)

\* The collection of a document: doc ? doc.collections[name] || [] : [],
\* reading a property of an undefined `collections` being a TypeError; an
\* error getDocument threw goes on.
CollectionOf(doc, collectionName) ==
    IF doc = Undefined THEN Arr(<<>>)
    ELSE IF doc = Thrown("TypeError") THEN doc
    ELSE IF "collections" \notin DOMAIN doc THEN Thrown("TypeError")
    ELSE CollectionNamed(doc.collections, collectionName)

RECURSIVE getCollection(_, _)
RECURSIVE getDocument(_, _)

getCollection(root, collectionPath) ==
    IF dirname(collectionPath) = <<Dot>>
    THEN CollectionNamed(root, basename(collectionPath))
    ELSE CollectionOf(getDocument(root, dirname(collectionPath)),
                      basename(collectionPath))

getDocument(root, docPath) ==
    FindByKey(getCollection(root, dirname(docPath)), basename(docPath))

\* !!this.getDocument(docPath), when getDocument returns.
hasDocument(root, docPath) == getDocument(root, docPath) # Undefined

\* The depth of calls at which the stack is used up.
MaxStack == 4

\* RangeError (maximum call stack size exceeded). A throw ends every
\* caller on the stack: the result of an enumeration that threw holds this
\* mark, carried through the concatenations the throw skips.
StackOverflow == Thrown("RangeError")

\* The `collections` argument of the recursive call: the default parameter
\* this.collections takes the place of an undefined doc.collections.
CollectionsArgument(root, doc) ==
    IF "collections" \in DOMAIN doc THEN doc.collections ELSE root

\* getDocuments(collections, parentPath): each document of a collection is
\* put before the ones already listed, its descendants after them.
RECURSIVE getDocuments(_, _, _, _)
RECURSIVE CollectionDocuments(_, _, _, _, _)

RECURSIVE DocumentEntries(_, _, _, _, _)

\* The inner reduce step: [{ path, doc }].concat(_docs).concat(children)
DocumentEntries(root, doc, docPath, acc, depth) ==
    <<[path |-> docPath, doc |-> doc]>> \o acc
        \o getDocuments(root, CollectionsArgument(root, doc), docPath, depth + 1)

CollectionDocuments(root, collection, collectionPath, acc, depth) ==
    IF Len(collection) = 0 THEN acc
    ELSE CollectionDocuments(root, Tail(collection), collectionPath,
             DocumentEntries(root, Head(collection),
                             PathJoin(collectionPath, Head(collection).key),
                             acc, depth),
             depth)

\* getDocuments of the Database `root`, called at the given depth of the
\* stack.
getDocuments(root, colls, parentPath, depth) ==
    IF depth > MaxStack THEN <<StackOverflow>>
    ELSE IF Len(colls) = 0 THEN <<>>
    ELSE CollectionDocuments(root, Head(colls).docs,
             PathJoin(parentPath, Head(colls).name), <<>>, depth)
         \o getDocuments(root, Tail(colls), parentPath, depth)

\* this.getDocuments(): the whole tree, from the root.
AllDocuments(root) == getDocuments(root, root, <<>>, 1)

-----------------------------------------------------------------------------
(* Wire format helpers (database.js, module level)                         *)

\* A variant of createDocumentPath that prefixes the collection group only.
createDocumentPathShort(path) == <<Slash, "documents", Slash>> \o path

createDocumentPath(path) ==
    <<Slash, "databases", Slash, "(default)", Slash, "documents", Slash>> \o path

createFunctionMock(functionName, arg, value) ==
    [function |-> functionName,
     args |-> <<[exact_value |-> arg]>>,
     result |-> [value |-> value]]

\* One of the three wildcard defaults of createMockFunctions.
DefaultMock(functionName, value) ==
    [function |-> functionName,
     args |-> <<[anyValue |-> Obj(EmptyObject)]>>,
     result |-> [value |-> value]]

DataKey == <<"data">>

\* The object { data: v }.
DataOf(v) == Obj(DataKey :> v)

-----------------------------------------------------------------------------
(* Database.createMockFunctions                                            *)

RECURSIVE DocMocks(_)
DocMocks(documents) ==
    IF Len(documents) = 0 THEN <<>>
    ELSE LET path == Head(documents).path
             doc == Head(documents).doc
         IN  << createFunctionMock("get", createDocumentPath(path),
                    IF doc # Undefined THEN DataOf(doc.fields) ELSE Null),
                createFunctionMock("exists", createDocumentPath(path),
                    Bool(doc # Undefined)) >>
             \o DocMocks(Tail(documents))

\* A variant of DefaultMocks with no getAfter default.
DefaultMocksWithoutGetAfter ==
    << DefaultMock("get", Null), DefaultMock("exists", Bool(FALSE)) >>

DefaultMocks ==
    << DefaultMock("get", Null),
       DefaultMock("getAfter", Null),
       DefaultMock("exists", Bool(FALSE)) >>

\* A variant of createMockFunctions that lists no document.
createMockFunctionsDefaultsOnly(root) == DefaultMocks

createMockFunctions(root) == DefaultMocks \o DocMocks(AllDocuments(root))

-----------------------------------------------------------------------------
(* Database.createBatchAfterFunctionMocks                                  *)
(* The code writes an update into the `fields` object of the document it   *)
(* found: the result is the mocks and the heap as the writes leave it.     *)

\* Object.keys(data).forEach(key => set(after, key, data[key])) on a plain
\* object. The keys of one update name no property twice, so the order in
\* which they are taken does not show.
RECURSIVE ApplyUpdate(_, _)
ApplyUpdate(o, data) ==
    IF DOMAIN data = {} THEN o
    ELSE LET key == CHOOSE k \in DOMAIN data : TRUE
         IN  ApplyUpdate(ObjectSet(o, key, data[key]),
                         [k \in DOMAIN data \ {key} |-> data[k]])

\* let after = doc ? doc.fields : null
PriorFields(doc) == IF doc # Undefined THEN doc.fields ELSE Null

\* after = after || {}; then every key of data is set in it. A reference
\* stays the reference: the writes go to the heap.
UpdatedFields(prior, data) ==
    IF Truthy(prior) /\ prior.t = "ref" THEN prior
    ELSE Obj(ApplyUpdate(EmptyObject, data.o))

\* The heap after the branch of one operation.
HeapAfter(h, operation, prior) ==
    IF operation.method = "update" /\ Truthy(prior) /\ prior.t = "ref"
    THEN [h EXCEPT ![prior.id] = ApplyUpdate(h[prior.id], operation.data.o)]
    ELSE h

\* `after` when the branches of one operation are through.
AfterFields(operation, prior) ==
    CASE operation.method = "set" -> Prop(operation, "data")
      [] operation.method = "delete" -> Null
      [] operation.method = "update" -> UpdatedFields(prior, operation.data)
      [] OTHER -> prior

\* after ? { data: after } : null
AfterValue(after) == IF Truthy(after) THEN DataOf(after) ELSE Null

\* One step of batch.map: the mock of one operation, added to the mocks
\* made so far, and the heap after it.
AfterMock(acc, operation, prior) ==
    [mocks |-> Append(acc.mocks,
                   createFunctionMock("getAfter",
                       createDocumentPath(operation.document),
                       AfterValue(AfterFields(operation, prior)))),
     heap |-> HeapAfter(acc.heap, operation, prior)]

RECURSIVE AfterMocksFrom(_, _, _)
AfterMocksFrom(root, acc, batch) ==
    IF Len(batch) = 0 THEN acc
    ELSE AfterMocksFrom(root,
             AfterMock(acc, Head(batch),
                       PriorFields(getDocument(root, Head(batch).document))),
             Tail(batch))

\* The mocks of a batch and the heap after they are built.
createBatchAfterFunctionMocks(root, h, batch) ==
    AfterMocksFrom(root, [mocks |-> <<>>, heap |-> h], batch)

-----------------------------------------------------------------------------
(* Database.createGetTest, Database.createCommitTest                       *)

Expectation(allow) == IF allow THEN "ALLOW" ELSE "DENY"

\* The case createGetTest returns, doc being the document at the path.
GetCase(allow, auth, path, functionMocks, doc) ==
    [expectation |-> Expectation(allow),
     request |-> [auth |-> auth, path |-> createDocumentPath(path), method |-> "get"],
     resource |-> [data |-> IF doc # Undefined THEN doc.fields ELSE Null],
     functionMocks |-> functionMocks]

createGetTest(root, allow, auth, path) ==
    GetCase(allow, auth, path, createMockFunctions(root), getDocument(root, path))

\* A variant of CommitMethod that does not look the document up.
CommitMethodNoLookup(root, operation) ==
    IF operation.method = "set" THEN "create" ELSE operation.method

\* The request method of one operation of a batch.
CommitMethod(root, operation) ==
    IF operation.method = "set"
    THEN (IF getDocument(root, operation.document) # Undefined
          THEN "update" ELSE "create")
    ELSE operation.method

\* The case of one operation of a batch.
CommitCase(root, expectation, auth, functionMocks, operation) ==
    [expectation |-> expectation,
     request |-> [auth |-> auth,
                  path |-> createDocumentPath(operation.document),
                  method |-> CommitMethod(root, operation)],
     resource |-> [data |-> IF Truthy(Prop(operation, "data"))
                            THEN operation.data ELSE Null],
     functionMocks |-> functionMocks]

\* A variant of CommitCases in which a case carries the getAfter mock of
\* its own operation only.
CommitCasesOwnMock(root, allow, auth, batch, baseFunctionMocks, afterFunctionMocks) ==
    [cases |-> [i \in 1..Len(batch) |->
                   CommitCase(root, Expectation(allow), auth,
                              Append(baseFunctionMocks, afterFunctionMocks.mocks[i]),
                              batch[i])],
     heap |-> afterFunctionMocks.heap]

\* batch.map(operation => ...), the mocks being made.
CommitCases(root, allow, auth, batch, baseFunctionMocks, afterFunctionMocks) ==
    [cases |-> [i \in 1..Len(batch) |->
                   CommitCase(root, Expectation(allow), auth,
                              baseFunctionMocks \o afterFunctionMocks.mocks,
                              batch[i])],
     heap |-> afterFunctionMocks.heap]

\* The cases of a batch and the heap after they are built.
createCommitTest(root, h, allow, auth, batch) ==
    CommitCases(root, allow, auth, batch,
                createMockFunctions(root),
                createBatchAfterFunctionMocks(root, h, batch))

-----------------------------------------------------------------------------
(* Batch factories (src/unnamed/part_004)                                  *)

BatchSet(document, data) == [method |-> "set", document |-> document, data |-> data]

\* A variant of update that tags its operation as a set.
BatchUpdateTaggedSet(document, data) ==
    [method |-> "set", document |-> document, data |-> data]

BatchUpdate(document, data) ==
    [method |-> "update", document |-> document, data |-> data]

BatchDelete(document) == [method |-> "delete", document |-> document]

-----------------------------------------------------------------------------
(* Fixtures and inputs                                                     *)

Field(name) == <<name>>

\* The `fields` objects of the fixture documents, as the fixtures are
\* written. A fixture is an object of the caller: setData hands the
\* Database a reference to it.
InitHeap ==
    <<  \* 1: users/userA of DataA
        (Field("name") :> Str("John"))
            @@ (Field("a") :> Obj((Field("b") :> Num(1)) @@ (Field("c") :> Num(2)))),
        \* 2: users/userA/favorites/fav1 of DataA
        (Field("name") :> Str("fav")),
        \* 3: users/userB of DataA
        EmptyObject,
        \* 4: users/userB/companies/companyA of DataA
        (Field("name") :> Str("Acme")),
        \* 5: users/userC of DataB, and the first users/userC of DataDup
        EmptyObject,
        \* 6: the second users/userC of DataDup
        (Field("name") :> Str("dup")),
        \* 7: users/userD of DataNoCollections
        (Field("name") :> Str("Dee")),
        \* 8, 9: the documents of DataOddKeys
        EmptyObject,
        EmptyObject >>

Doc(key, id, colls) == [key |-> <<key>>, fields |-> Ref(id), collections |-> colls]

\* constructor default: data || {}
DataEmpty == <<>>

\* Two users, each with one nested document (the shape of the test fixture).
DataA ==
    << [name |-> <<"users">>,
        docs |-> << Doc("userA", 1,
                        << [name |-> <<"favorites">>,
                            docs |-> << Doc("fav1", 2, <<>>) >>] >>),
                    Doc("userB", 3,
                        << [name |-> <<"companies">>,
                            docs |-> << Doc("companyA", 4, <<>>) >>] >>) >>] >>

\* One user with no fields.
DataB == << [name |-> <<"users">>, docs |-> << Doc("userC", 5, <<>>) >>] >>

\* Two documents of one collection with the same key, which nothing in the
\* code refuses.
DataDup ==
    << [name |-> <<"users">>,
        docs |-> << Doc("userC", 5, <<>>), Doc("userC", 6, <<>>) >>] >>

Datasets == {DataEmpty, DataA, DataB, DataDup}

PathUserA == <<"users", Slash, "userA">>
PathUserC == <<"users", Slash, "userC">>
PathFav1 == <<"users", Slash, "userA", Slash, "favorites", Slash, "fav1">>

Paths == {PathUserA, PathUserC, PathFav1}

EmptyAuth == Obj(EmptyObject)
UserAuth == Obj(Field("uid") :> Str("userA"))
Auths == {EmptyAuth, UserAuth}

\* Payloads of set.
SetData1 == Obj(Field("name") :> Str("Hello"))
SetData2 == Obj(EmptyObject)

\* Payloads of update: { "a.b": 9 } and { "a.c": 3, "n": 2 }.
Update1 == Obj(<<"a", Dot, "b">> :> Num(9))
Update2 == Obj((<<"a", Dot, "c">> :> Num(3)) @@ (Field("n") :> Num(2)))

\* An operation of a kind the factories do not make.
OtherOperation(document) == [method |-> "touch", document |-> document]

Operations ==
    {BatchSet(PathUserA, SetData1), BatchSet(PathUserC, SetData2),
     BatchUpdate(PathUserA, Update1), BatchUpdate(PathUserA, Update2),
     BatchDelete(PathUserA), OtherOperation(PathUserA)}

MaxBatch == 2

SeqsUpTo(S, n) == UNION {[1..k -> S] : k \in 0..n}

Batches == SeqsUpTo(Operations, MaxBatch)

Rules1 == "rules-1"
Rules2 == "rules-2"
RuleSources == {"", Rules1, Rules2}

-----------------------------------------------------------------------------
(* State                                                                   *)

VARIABLES
    collections,  \* this.collections
    rules,        \* this.rules
    client,       \* this.client
    heap,         \* the content of the fixtures' `fields` objects
    handshakes,   \* jwtClient.authorize calls: started, not yet answered,
                  \* and answered without an error
    authorized,   \* how a promise of authorize() settled last, and whether
                  \* after a handshake
    calls,        \* the test calls the caller holds, each with its promise
    built,        \* a direct call of a method and what it returned
    database      \* the Database of the process-wide singleton: how many
                  \* were made (none: null), and the handshakes still
                  \* pending of those replaced

vars == <<collections, rules, client, heap, handshakes, authorized, calls, built, database>>

\* this.client: 0 while unset, else the n-th handle made.
NoClient == 0
NothingBuilt == [fn |-> "none"]

\* let database = null
NoDatabase == [made |-> 0, stale |-> 0]

\* new Database({ data, credential, rules }), data and rules being optional.
Init ==
    /\ collections \in Datasets
    /\ rules \in {"", Rules1}
    /\ client = NoClient
    /\ heap = InitHeap
    /\ handshakes = [started |-> 0, pending |-> 0, succeeded |-> 0]
    /\ authorized = [state |-> "none"]
    /\ calls = <<>>
    /\ built = NothingBuilt
    /\ database = NoDatabase

-----------------------------------------------------------------------------
(* Mutators                                                                *)

SetData(data) ==
    /\ collections' = data
    /\ UNCHANGED <<rules, client, heap, handshakes, authorized, calls, built, database>>

SetRules(source) ==
    /\ rules' = source
    /\ UNCHANGED <<collections, client, heap, handshakes, authorized, calls, built, database>>

-----------------------------------------------------------------------------
(* Direct calls of the factory methods, as the repository's tests make     *)
(* them, one at a time: the arguments, the dataset before the call and     *)
(* what is returned are kept in `built` until the caller drops them.       *)

CallCreateMockFunctions ==
    /\ built = NothingBuilt
    /\ built' = [fn |-> "createMockFunctions",
                 root |-> collections, before |-> heap,
                 mocks |-> createMockFunctions(collections)]
    /\ UNCHANGED <<collections, rules, client, heap, handshakes, authorized, calls, database>>

CallCreateGetTest(allow, auth, path) ==
    /\ built = NothingBuilt
    /\ built' = [fn |-> "createGetTest",
                 allow |-> allow, auth |-> auth, path |-> path,
                 root |-> collections, before |-> heap,
                 case |-> createGetTest(collections, allow, auth, path)]
    /\ UNCHANGED <<collections, rules, client, heap, handshakes, authorized, calls, database>>

\* made: what createCommitTest returns and the heap it leaves.
ReturnCommitTest(allow, auth, batch, made) ==
    /\ built' = [fn |-> "createCommitTest",
                 allow |-> allow, auth |-> auth, batch |-> batch,
                 root |-> collections, before |-> heap,
                 cases |-> made.cases]
    /\ heap' = made.heap
    /\ UNCHANGED <<collections, rules, client, handshakes, authorized, calls, database>>

CallCreateCommitTest(allow, auth, batch) ==
    /\ built = NothingBuilt
    /\ ReturnCommitTest(allow, auth, batch,
           createCommitTest(collections, heap, allow, auth, batch))

\* made: what createBatchAfterFunctionMocks returns and the heap it leaves.
ReturnAfterFunctionMocks(batch, made) ==
    /\ built' = [fn |-> "createBatchAfterFunctionMocks",
                 batch |-> batch,
                 root |-> collections, before |-> heap,
                 mocks |-> made.mocks]
    /\ heap' = made.heap
    /\ UNCHANGED <<collections, rules, client, handshakes, authorized, calls, database>>

CallCreateBatchAfterFunctionMocks(batch) ==
    /\ built = NothingBuilt
    /\ ReturnAfterFunctionMocks(batch,
           createBatchAfterFunctionMocks(collections, heap, batch))

DropBuilt ==
    /\ built # NothingBuilt
    /\ built' = NothingBuilt
    /\ UNCHANGED <<collections, rules, client, heap, handshakes, authorized, calls, database>>

NextBuild ==
    \/ \E data \in Datasets : SetData(data)
    \/ CallCreateMockFunctions
    \/ \E allow \in BOOLEAN, auth \in Auths, path \in Paths :
           CallCreateGetTest(allow, auth, path)
    \/ \E allow \in BOOLEAN, auth \in Auths, batch \in Batches :
           CallCreateCommitTest(allow, auth, batch)
    \/ \E batch \in Batches : CallCreateBatchAfterFunctionMocks(batch)
    \/ DropBuilt

SpecBuild == Init /\ [][NextBuild]_vars

-----------------------------------------------------------------------------
(* Database.authorize                                                      *)

MaxHandshakes == 2

AuthorizationError == <<"invalid_grant">>

\* A variant of authorize that starts a handshake whether or not the
\* client is set.
AuthorizeAlwaysHandshakes ==
    /\ handshakes.started < MaxHandshakes
    /\ handshakes' = [handshakes EXCEPT !.started = @ + 1, !.pending = @ + 1]
    /\ UNCHANGED <<collections, rules, client, heap, authorized, calls, built, database>>

\* authorize(): returns at once when the client is set, else starts a
\* handshake and awaits its answer.
Authorize ==
    IF client # NoClient
    THEN /\ authorized' = [state |-> "resolved", handshake |-> FALSE]
         /\ UNCHANGED <<collections, rules, client, heap, handshakes, calls, built, database>>
    ELSE /\ handshakes.started < MaxHandshakes
         /\ handshakes' = [handshakes EXCEPT !.started = @ + 1, !.pending = @ + 1]
         /\ UNCHANGED <<collections, rules, client, heap, authorized, calls, built, database>>

\* A variant of JwtAnswer that makes the client whatever the answer.
JwtAnswerMakesClient(error) ==
    /\ handshakes.pending > 0
    /\ handshakes' = [handshakes EXCEPT !.pending = @ - 1,
                                        !.succeeded = IF error THEN @ ELSE @ + 1]
    /\ client' = client + 1
    /\ authorized' = IF error THEN [state |-> "rejected", error |-> AuthorizationError]
                     ELSE [state |-> "resolved", handshake |-> TRUE]
    /\ UNCHANGED <<collections, rules, heap, calls, built, database>>

\* The callback of jwtClient.authorize, with or without an error.
JwtAnswer(error) ==
    /\ handshakes.pending > 0
    /\ IF error
       THEN /\ handshakes' = [handshakes EXCEPT !.pending = @ - 1]
            /\ authorized' = [state |-> "rejected", error |-> AuthorizationError]
            /\ UNCHANGED client
       ELSE /\ handshakes' = [handshakes EXCEPT !.pending = @ - 1,
                                                !.succeeded = @ + 1]
            /\ client' = client + 1
            /\ authorized' = [state |-> "resolved", handshake |-> TRUE]
    /\ UNCHANGED <<collections, rules, heap, calls, built, database>>

-----------------------------------------------------------------------------
(* Database.testRules and the callers of it                                *)

MaxCalls == 1

ProjectId == "project"

NotAuthorizedError ==
    <<"API client not authorized yet, call database.authorize() first">>

NoRequest == [sent |-> FALSE]
NoResponse == [answered |-> FALSE]
NoValue == [settled |-> FALSE]
NotAsserted == [done |-> FALSE]

\* JSON.stringify of a value of a case: a reference is written as the
\* object it points at.
Serialized(v, h) ==
    IF v.t = "ref" THEN Obj(h[v.id])
    ELSE IF v.t = "obj"
    THEN Obj([k \in DOMAIN v.o |-> Deref(v.o[k], h)])
    ELSE v

SerializedMock(mock, h) ==
    [mock EXCEPT !.result = [value |-> Serialized(mock.result.value, h)]]

\* JSON.stringify of a case: the properties the case has, no other.
SerializedCase(case, h) ==
    [k \in DOMAIN case |->
        IF k = "resource" THEN [data |-> Serialized(case.resource.data, h)]
        ELSE IF k = "functionMocks"
        THEN [j \in 1..Len(case.functionMocks) |->
                 SerializedMock(case.functionMocks[j], h)]
        ELSE case[k]]

\* The params of client.projects.test as they go on the wire.
TestParams(source, testCases, h) ==
    [sent |-> TRUE,
     name |-> <<"projects/", ProjectId>>,
     resource |->
         [source |-> [files |-> <<[name |-> "firestore.rules", content |-> source]>>],
          testSuite |->
              [testCases |-> [i \in 1..Len(testCases) |->
                                 SerializedCase(testCases[i], h)]]]]

\* The params of client.projects.test when testCases is one case, not an
\* array of cases: `testSuite: { testCases }` holds whatever was given.
TestParamsOfCase(source, case, h) ==
    [sent |-> TRUE,
     name |-> <<"projects/", ProjectId>>,
     resource |->
         [source |-> [files |-> <<[name |-> "firestore.rules", content |-> source]>>],
          testSuite |-> [testCases |-> SerializedCase(case, h)]]]

\* testRules(testCases) up to the return of the promise: the executor
\* throws, which rejects the promise, or hands the request to the client.
\* h is the heap the factories left. array tells whether testCases is an
\* array of cases or, as nothing forbids, one case.
TestRulesWith(limit, op, array, testCases, h) ==
    /\ Len(calls) < limit
    /\ calls' = Append(calls,
           [op |-> op,
            array |-> array,
            testCases |-> testCases,
            request |-> IF client = NoClient THEN NoRequest
                        ELSE IF array THEN TestParams(rules, testCases, h)
                        ELSE TestParamsOfCase(rules, testCases, h),
            response |-> NoResponse,
            promise |-> IF client = NoClient THEN "rejected" ELSE "pending",
            value |-> IF client = NoClient THEN [settled |-> TRUE,
                                                 error |-> NotAuthorizedError]
                      ELSE NoValue,
            thrown |-> <<>>,
            asserted |-> NotAsserted])
    /\ heap' = h
    /\ UNCHANGED <<collections, rules, client, handshakes, authorized, built, database>>

\* testRules(testCases), testCases an array, with at most limit calls kept
\* at a time.
TestRulesUpTo(limit, op, testCases, h) == TestRulesWith(limit, op, TRUE, testCases, h)

\* testRules with at most MaxCalls calls kept at a time.
testRules(op, testCases, h) == TestRulesUpTo(MaxCalls, op, testCases, h)

\* testRules called by the user with cases of their own.
CallTestRules(testCases) == testRules("testRules", testCases, heap)

\* testRules called with one case in place of an array, as the
\* repository's test of testRules calls it.
CallTestRulesWithCase(case) == TestRulesWith(MaxCalls, "testRules", FALSE, case, heap)

canGet(auth, path) ==
    testRules("canGet", <<createGetTest(collections, TRUE, auth, path)>>, heap)

cannotGet(auth, path) ==
    testRules("cannotGet", <<createGetTest(collections, FALSE, auth, path)>>, heap)

\* testRules(createCommitTest(...)), made being what createCommitTest
\* returns and the heap it leaves.
TestCommit(op, made) == testRules(op, made.cases, made.heap)

canCommit(op, auth, batch) ==
    TestCommit(op, createCommitTest(collections, heap, TRUE, auth, batch))

cannotCommit(op, auth, batch) ==
    TestCommit(op, createCommitTest(collections, heap, FALSE, auth, batch))

canSet(auth, path, data) == canCommit("canSet", auth, <<BatchSet(path, data)>>)

cannotSet(auth, path, data) == cannotCommit("cannotSet", auth, <<BatchSet(path, data)>>)

canUpdate(auth, path, data) ==
    canCommit("canUpdate", auth, <<BatchUpdate(path, data)>>)

cannotUpdate(auth, path, data) ==
    cannotCommit("cannotUpdate", auth, <<BatchUpdate(path, data)>>)

-----------------------------------------------------------------------------
(* The callback of client.projects.test (database.js, testRules)           *)

\* issues.map(issue => `Line ${..}, column ${..}: ${..}`).join('\n\n')
RECURSIVE IssueLines(_)
IssueLines(issues) ==
    IF Len(issues) = 0 THEN <<>>
    ELSE << <<"Line ", ToString(Head(issues).sourcePosition.line),
              ", column ", ToString(Head(issues).sourcePosition.column),
              ": ">> \o Head(issues).description >>
         \o IssueLines(Tail(issues))

IssuesMessage(issues) == JoinStrings(IssueLines(issues), <<"\n\n">>)

\* A variant of SuccessAfter that keeps the state of the last result only.
SuccessOfLast(testResults, success) ==
    IF Len(testResults) = 0 THEN success
    ELSE testResults[Len(testResults)].state = "SUCCESS"

\* success after testResults.map: result.state == 'SUCCESS' && success
RECURSIVE SuccessAfter(_, _)
SuccessAfter(testResults, success) ==
    IF Len(testResults) = 0 THEN success
    ELSE SuccessAfter(Tail(testResults),
                      Head(testResults).state = "SUCCESS" /\ success)

\* testCases[i]
CaseAt(testCases, i) == IF i \in DOMAIN testCases THEN testCases[i] ELSE Undefined

\* What testCases[i] reads from: the array, or an object that has no
\* property named by an index.
IndexedCases(array, testCases) == IF array THEN testCases ELSE <<>>

\* How many results the oracle is taken to answer a call with.
CaseCount(call) == IF call.array THEN Len(call.testCases) ELSE 1

TestSummary(testCases, testResults) ==
    [success |-> SuccessAfter(testResults, TRUE),
     tests |-> [i \in 1..Len(testResults) |->
                   [case |-> CaseAt(testCases, i), result |-> testResults[i]]]]

Received(response) == [answered |-> TRUE, with |-> response]

\* A variant of Answered in which the rules of the request are read when
\* the oracle answers.
AnsweredReadingRulesLate(call, response) ==
    IF "error" \in DOMAIN response
    THEN [call EXCEPT !.response = Received(response),
                      !.promise = "rejected",
                      !.value = [settled |-> TRUE, error |-> response.error]]
    ELSE IF "issues" \in DOMAIN response.json
    THEN [call EXCEPT !.response = Received(response),
                      !.thrown = IssuesMessage(response.json.issues)]
    ELSE [call EXCEPT !.request = IF call.array
                                  THEN TestParams(rules, call.testCases, heap)
                                  ELSE TestParamsOfCase(rules, call.testCases, heap),
                      !.response = Received(response),
                      !.promise = "resolved",
                      !.value = [settled |-> TRUE,
                                 summary |-> TestSummary(
                                                 IndexedCases(call.array, call.testCases),
                                                 response.json.testResults)]]

\* The call after the callback ran with (error, json).
Answered(call, response) ==
    IF "error" \in DOMAIN response
    THEN [call EXCEPT !.response = Received(response),
                      !.promise = "rejected",
                      !.value = [settled |-> TRUE, error |-> response.error]]
    ELSE IF "issues" \in DOMAIN response.json
    THEN \* the throw leaves the callback: nothing settles the promise
         [call EXCEPT !.response = Received(response),
                      !.thrown = IssuesMessage(response.json.issues)]
    ELSE [call EXCEPT !.response = Received(response),
                      !.promise = "resolved",
                      !.value = [settled |-> TRUE,
                                 summary |-> TestSummary(
                                                 IndexedCases(call.array, call.testCases),
                                                 response.json.testResults)]]

OracleAnswer(i, response) ==
    /\ calls[i].request.sent
    /\ ~calls[i].response.answered
    /\ calls' = [calls EXCEPT ![i] = Answered(calls[i], response)]
    /\ UNCHANGED <<collections, rules, client, heap, handshakes, authorized, built, database>>

-----------------------------------------------------------------------------
(* assert (src/src/assert.js, the first function of the file)              *)

\* What a call of assert did: returned, or threw an error.
Returned == [done |-> TRUE, threw |-> FALSE]

Threw(type, message) ==
    [done |-> TRUE, threw |-> TRUE, type |-> type, message |-> message]

\* The message of the TypeError the engine raises on test.expectation with
\* test undefined. The wording is the engine's, not the repository's: this
\* is the one of V8 since Node 16; older engines wrote "Cannot read
\* property 'expectation' of undefined".
ReadOfUndefinedMessage ==
    <<"Cannot read properties of undefined (reading 'expectation')">>

\* getTestDescription(test); reading a property of undefined is a TypeError.
getTestDescription(test) ==
    IF test = Undefined
    THEN Threw("TypeError", ReadOfUndefinedMessage)
    ELSE Threw("Error",
               <<"Expected the ", test.request.method, " operation ",
                 IF test.expectation = "ALLOW" THEN "to succeed" ELSE "to fail",
                 ".">>)

assert(result) ==
    IF "state" \in DOMAIN result /\ result.state = "SUCCESS" THEN Returned
    ELSE IF "debugMessages" \in DOMAIN result
    THEN Threw("Error", JoinStrings(result.debugMessages, <<"\n\n">>))
    ELSE getTestDescription(Prop(result, "test"))

\* assert(await database.canGet(...)): the caller passes the summary the
\* promise resolved with.
AssertSummary(i) ==
    /\ calls[i].promise = "resolved"
    /\ ~calls[i].asserted.done
    /\ calls' = [calls EXCEPT ![i].asserted = assert(calls[i].value.summary)]
    /\ UNCHANGED <<collections, rules, client, heap, handshakes, authorized, built, database>>

\* The caller lets go of a call whose promise is settled, or can no longer
\* be.
DropCall(i) ==
    /\ calls[i].promise # "pending" \/ calls[i].response.answered
    /\ calls' = [j \in 1..(Len(calls) - 1) |-> IF j < i THEN calls[j] ELSE calls[j + 1]]
    /\ UNCHANGED <<collections, rules, client, heap, handshakes, authorized, built, database>>

-----------------------------------------------------------------------------
(* The oracle's answers and the calls made                                 *)

Success == [state |-> "SUCCESS"]
Failure == [state |-> "FAILURE"]
FailureDebug == [state |-> "FAILURE", debugMessages |-> << <<"denied">>, <<"at L3">> >>]
Results == {Success, Failure, FailureDebug}

Issue(line, column, description) ==
    [sourcePosition |-> [line |-> line, column |-> column],
     description |-> description]

IssueLists ==
    { << Issue(1, 1, <<"Unexpected 'foo'">>) >>,
      << Issue(1, 1, <<"Unexpected 'foo'">>), Issue(4, 12, <<"Missing ';'">>) >> }

TransportError == <<"ECONNRESET">>

\* What the oracle may answer a request of n cases.
Responses(n) ==
    {[error |-> TransportError]}
        \cup {[json |-> [issues |-> issues]] : issues \in IssueLists}
        \cup {[json |-> [testResults |-> results]] : results \in [1..n -> Results]}

CallPaths == {PathUserA, PathUserC}
CallAuths == {EmptyAuth}
CallBatches ==
    { <<BatchSet(PathUserC, SetData2), BatchUpdate(PathUserA, Update1)>>,
      <<BatchDelete(PathUserA), BatchSet(PathUserA, SetData1)>> }

\* A case written by hand, as the repository's test of testRules writes
\* it: an expectation and a request of a method and a path.
CustomCase ==
    [expectation |-> "ALLOW",
     request |-> [method |-> "get",
                  path |-> createDocumentPath(PathUserA)]]

Next ==
    \/ \E data \in Datasets : SetData(data)
    \/ \E source \in {Rules1, Rules2} : SetRules(source)
    \/ Authorize
    \/ \E error \in BOOLEAN : JwtAnswer(error)
    \/ CallTestRules(<<CustomCase>>)
    \/ CallTestRulesWithCase(CustomCase)
    \/ \E auth \in CallAuths, path \in CallPaths : canGet(auth, path)
    \/ \E auth \in CallAuths, path \in CallPaths : cannotGet(auth, path)
    \/ \E auth \in CallAuths, path \in CallPaths : canSet(auth, path, SetData1)
    \/ \E auth \in CallAuths, path \in CallPaths : cannotSet(auth, path, SetData1)
    \/ \E auth \in CallAuths : canUpdate(auth, PathUserA, Update1)
    \/ \E auth \in CallAuths : cannotUpdate(auth, PathUserA, Update1)
    \/ \E auth \in CallAuths, batch \in CallBatches : canCommit("canCommit", auth, batch)
    \/ \E auth \in CallAuths, batch \in CallBatches :
           cannotCommit("cannotCommit", auth, batch)
    \/ \E i \in 1..Len(calls) :
           \E response \in Responses(CaseCount(calls[i])) : OracleAnswer(i, response)
    \/ \E i \in 1..Len(calls) : AssertSummary(i)
    \/ \E i \in 1..Len(calls) : DropCall(i)

Spec == Init /\ [][Next]_vars

-----------------------------------------------------------------------------
(* Direct calls of the lookups of the tree (getCollection, getDocument,    *)
(* hasDocument, getDocuments), over datasets the constructor and setData   *)
(* take as they are: nothing validates a dataset.                          *)

\* A document written without a `collections` key.
DataNoCollections ==
    << [name |-> <<"users">>,
        docs |-> << [key |-> <<"userD">>, fields |-> Ref(7)] >>] >>

\* Documents whose keys are '..' and the empty string.
DataOddKeys ==
    << [name |-> <<"users">>,
        docs |-> << [key |-> <<DotDot>>, fields |-> Ref(8), collections |-> <<>>],
                    [key |-> <<>>, fields |-> Ref(9), collections |-> <<>>] >>] >>

LookupDatasets == Datasets \cup {DataNoCollections, DataOddKeys}

LookupPaths ==
    Paths \cup { <<"users">>,
                 <<"users", Slash, "userB">>,
                 <<"users", Slash, "nobody">>,
                 <<"users", Slash, "userA", Slash, "favorites">>,
                 <<"users", Slash, "userA", Slash, "favorites", Slash, "none">>,
                 <<"users", Slash, "nobody", Slash, "favorites", Slash, "fav1">>,
                 <<"teams", Slash, "t1", Slash, "members", Slash, "m1">>,
                 <<"users", Slash, "userD">>,
                 <<"users", Slash, "userD", Slash, "favorites">>,
                 <<"users", Slash, "userD", Slash, "favorites", Slash, "fav1">>,
                 <<"users", Slash, DotDot>>,
                 <<Dot>>,
                 <<"constructor">>,
                 <<"constructor", Slash, "x">>,
                 <<"users", Slash, "userA", Slash, "toString", Slash, "x">> }

\* new Database({ data, ... }) with any of the datasets.
InitLookup ==
    /\ collections \in LookupDatasets
    /\ rules = ""
    /\ client = NoClient
    /\ heap = InitHeap
    /\ handshakes = [started |-> 0, pending |-> 0, succeeded |-> 0]
    /\ authorized = [state |-> "none"]
    /\ calls = <<>>
    /\ built = NothingBuilt
    /\ database = NoDatabase

\* What a call gave its caller: the value returned, or the error thrown.
Gave(result) ==
    IF result = Thrown("TypeError") \/ result = Thrown("RangeError")
    THEN [threw |-> TRUE, error |-> result.error]
    ELSE [threw |-> FALSE, value |-> result]

CallGetCollection(path) ==
    /\ built = NothingBuilt
    /\ built' = [fn |-> "getCollection", root |-> collections, path |-> path,
                 gave |-> Gave(getCollection(collections, path))]
    /\ UNCHANGED <<collections, rules, client, heap, handshakes, authorized, calls, database>>

CallGetDocument(path) ==
    /\ built = NothingBuilt
    /\ built' = [fn |-> "getDocument", root |-> collections, path |-> path,
                 gave |-> Gave(getDocument(collections, path))]
    /\ UNCHANGED <<collections, rules, client, heap, handshakes, authorized, calls, database>>

\* doc being what getDocument returned or threw.
HasDocumentGave(doc) ==
    IF doc = Thrown("TypeError") THEN Gave(doc) ELSE Gave(Bool(doc # Undefined))

CallHasDocument(path) ==
    /\ built = NothingBuilt
    /\ built' = [fn |-> "hasDocument", root |-> collections, path |-> path,
                 gave |-> HasDocumentGave(getDocument(collections, path))]
    /\ UNCHANGED <<collections, rules, client, heap, handshakes, authorized, calls, database>>

\* entries being the enumeration, with the mark of a throw if there was one.
GetDocumentsGave(entries) ==
    IF \E i \in DOMAIN entries : entries[i] = StackOverflow
    THEN Gave(StackOverflow)
    ELSE [threw |-> FALSE, value |-> entries]

CallGetDocuments ==
    /\ built = NothingBuilt
    /\ built' = [fn |-> "getDocuments", root |-> collections,
                 gave |-> GetDocumentsGave(AllDocuments(collections))]
    /\ UNCHANGED <<collections, rules, client, heap, handshakes, authorized, calls, database>>

NextLookup ==
    \/ \E data \in LookupDatasets : SetData(data)
    \/ \E path \in LookupPaths : CallGetCollection(path)
    \/ \E path \in LookupPaths : CallGetDocument(path)
    \/ \E path \in LookupPaths : CallHasDocument(path)
    \/ CallGetDocuments
    \/ DropBuilt

SpecLookup == InitLookup /\ [][NextLookup]_vars

-----------------------------------------------------------------------------
(* The process-wide singleton: one module variable, database, null until   *)
(* authorize(credential) makes a Database. collections, rules and client   *)
(* are the fields of the Database the variable holds.                     *)

\* What a function of the singleton gave its caller: the two setters throw,
\* the async functions return a rejected promise.
SetterThrew(fn) ==
    [threw |-> TRUE, error |-> <<"Call authorize before calling ", fn>>]

NotInitialized == [rejected |-> TRUE, error |-> <<"Database not initialized yet">>]

\* A call that fails on the null database and leaves everything else.
FailedCall(fn, gave) ==
    /\ built = NothingBuilt
    /\ built' = [fn |-> fn, gave |-> gave]
    /\ UNCHANGED <<collections, rules, client, heap, handshakes, authorized, calls, database>>

\* A variant of the singleton's authorize that makes every Database with
\* empty rules and data.
SingletonAuthorizeFresh ==
    /\ handshakes.started < MaxHandshakes
    /\ database' = [made |-> database.made + 1,
                    stale |-> database.stale + handshakes.pending]
    /\ rules' = ""
    /\ collections' = DataEmpty
    /\ client' = NoClient
    /\ handshakes' = [handshakes EXCEPT !.started = @ + 1, !.pending = 1]
    /\ UNCHANGED <<heap, authorized, calls, built>>

\* authorize(credential): a new Database with the rules and data of the
\* one before it, if any, and no client; then its authorize(), which
\* starts a handshake. The handshakes of the Databases replaced stay
\* pending on their own.
SingletonAuthorize ==
    /\ handshakes.started < MaxHandshakes
    /\ database' = [made |-> database.made + 1,
                    stale |-> database.stale + handshakes.pending]
    /\ rules' = IF database # NoDatabase THEN rules ELSE ""
    /\ collections' = IF database # NoDatabase THEN collections ELSE DataEmpty
    /\ client' = NoClient
    /\ handshakes' = [handshakes EXCEPT !.started = @ + 1, !.pending = 1]
    /\ UNCHANGED <<heap, authorized, calls, built>>

\* The answer to the handshake of a Database the singleton no longer
\* holds: it settles the promise of that authorize call, and the client
\* it makes is the one of the replaced Database.
StaleJwtAnswer(error) ==
    /\ database.stale > 0
    /\ database' = [database EXCEPT !.stale = @ - 1]
    /\ handshakes' = [handshakes EXCEPT !.succeeded = IF error THEN @ ELSE @ + 1]
    /\ authorized' = IF error THEN [state |-> "rejected", error |-> AuthorizationError]
                     ELSE [state |-> "resolved", handshake |-> TRUE]
    /\ UNCHANGED <<collections, rules, client, heap, calls, built>>

\* A variant of the singleton's setData without the check of the database.
SingletonSetDataUnchecked(data) == SetData(data)

\* setData(data)
SingletonSetData(data) ==
    IF database = NoDatabase THEN FailedCall("setData", SetterThrew("setData"))
    ELSE SetData(data)

\* setRules(rules)
SingletonSetRules(source) ==
    IF database = NoDatabase THEN FailedCall("setRules", SetterThrew("setRules"))
    ELSE SetRules(source)

\* canGet(auth, path): assertDatabase().canGet(auth, path)
SingletonCanGet(auth, path) ==
    IF database = NoDatabase THEN FailedCall("canGet", NotInitialized)
    ELSE canGet(auth, path)

SingletonCannotGet(auth, path) ==
    IF database = NoDatabase THEN FailedCall("cannotGet", NotInitialized)
    ELSE cannotGet(auth, path)

SingletonCanSet(auth, path, data) ==
    IF database = NoDatabase THEN FailedCall("canSet", NotInitialized)
    ELSE canSet(auth, path, data)

SingletonCannotSet(auth, path, data) ==
    IF database = NoDatabase THEN FailedCall("cannotSet", NotInitialized)
    ELSE cannotSet(auth, path, data)

\* The module as loaded: database is null.
InitSingleton ==
    /\ collections = DataEmpty
    /\ rules = ""
    /\ client = NoClient
    /\ heap = InitHeap
    /\ handshakes = [started |-> 0, pending |-> 0, succeeded |-> 0]
    /\ authorized = [state |-> "none"]
    /\ calls = <<>>
    /\ built = NothingBuilt
    /\ database = NoDatabase

NextSingleton ==
    \/ SingletonAuthorize
    \/ \E error \in BOOLEAN : JwtAnswer(error)
    \/ \E error \in BOOLEAN : StaleJwtAnswer(error)
    \/ \E data \in {DataA, DataB} : SingletonSetData(data)
    \/ \E source \in {Rules1, Rules2} : SingletonSetRules(source)
    \/ \E auth \in CallAuths, path \in CallPaths : SingletonCanGet(auth, path)
    \/ \E auth \in CallAuths, path \in CallPaths : SingletonCannotGet(auth, path)
    \/ \E auth \in CallAuths, path \in CallPaths : SingletonCanSet(auth, path, SetData1)
    \/ \E auth \in CallAuths, path \in CallPaths : SingletonCannotSet(auth, path, SetData1)
    \/ \E i \in 1..Len(calls) :
           \E response \in Responses(CaseCount(calls[i])) : OracleAnswer(i, response)
    \/ \E i \in 1..Len(calls) : DropCall(i)
    \/ DropBuilt

SpecSingleton == InitSingleton /\ [][NextSingleton]_vars

-----------------------------------------------------------------------------
(* Calls that overlap: a second call made while the first awaits the       *)
(* oracle, on a Database that is authorized.                               *)

MaxOverlap == 2

\* testRules(createCommitTest(...)) with up to MaxOverlap calls in flight.
OverlapCommit(op, made) == TestRulesUpTo(MaxOverlap, op, made.cases, made.heap)

OverlapCanGet(auth, path) ==
    TestRulesUpTo(MaxOverlap, "canGet",
                  <<createGetTest(collections, TRUE, auth, path)>>, heap)

OverlapCannotSet(auth, path, data) ==
    OverlapCommit("cannotSet",
        createCommitTest(collections, heap, FALSE, auth, <<BatchSet(path, data)>>))

OverlapCanUpdate(auth, path, data) ==
    OverlapCommit("canUpdate",
        createCommitTest(collections, heap, TRUE, auth, <<BatchUpdate(path, data)>>))

OverlapCanCommit(auth, batch) ==
    OverlapCommit("canCommit", createCommitTest(collections, heap, TRUE, auth, batch))

OverlapBatch == <<BatchDelete(PathUserA), BatchSet(PathUserC, SetData1)>>

\* The answers of the oracle that carry results.
OverlapResponses(n) ==
    {[json |-> [testResults |-> results]] : results \in [1..n -> {Success, Failure}]}

\* A Database made with data and rules, authorize() resolved.
InitOverlap ==
    /\ collections = DataA
    /\ rules = Rules1
    /\ client = 1
    /\ heap = InitHeap
    /\ handshakes = [started |-> 1, pending |-> 0, succeeded |-> 1]
    /\ authorized = [state |-> "resolved", handshake |-> TRUE]
    /\ calls = <<>>
    /\ built = NothingBuilt
    /\ database = NoDatabase

NextOverlap ==
    \/ \E data \in {DataA, DataB} : SetData(data)
    \/ \E source \in {Rules1, Rules2} : SetRules(source)
    \/ OverlapCanGet(EmptyAuth, PathUserA)
    \/ OverlapCannotSet(EmptyAuth, PathUserC, SetData1)
    \/ OverlapCanUpdate(EmptyAuth, PathUserA, Update1)
    \/ OverlapCanCommit(EmptyAuth, OverlapBatch)
    \/ \E i \in 1..Len(calls) :
           \E response \in OverlapResponses(Len(calls[i].testCases)) :
               OracleAnswer(i, response)
    \/ \E i \in 1..Len(calls) : DropCall(i)

SpecOverlap == InitOverlap /\ [][NextOverlap]_vars

-----------------------------------------------------------------------------
(* Properties of the factory methods (SpecBuild)                           *)

WirePrefix == <<"/", "databases", "/", "(default)", "/", "documents", "/">>

\* The fields of the document at docPath as heap h holds them, Null when
\* there is no such document.
FieldsAt(root, h, docPath) ==
    IF hasDocument(root, docPath)
    THEN Obj(h[getDocument(root, docPath).fields.id])
    ELSE Null

\* C1: createCommitTest derives the request method of each operation from
\* the dataset at call time: set gives create when the document is absent
\* and update when it is present; update and delete keep their name whether
\* or not the document exists.
C1_MethodDerived ==
    built.fn = "createCommitTest" =>
        \A i \in DOMAIN built.batch :
            LET operation == built.batch[i]
                method == built.cases[i].request.method
            IN  /\ operation.method = "set" =>
                       method = (IF hasDocument(built.root, operation.document)
                                 THEN "update" ELSE "create")
                /\ operation.method = "update" => method = "update"
                /\ operation.method = "delete" => method = "delete"

\* C1 witness: one batch with a set on an absent document, translated to
\* create, and a set on a present one, translated to update.
C1_Witness ==
    /\ built.fn = "createCommitTest"
    /\ built.root = DataB
    /\ built.batch = <<BatchSet(PathUserA, SetData1), BatchSet(PathUserC, SetData2)>>
    /\ built.cases[1].request.method = "create"
    /\ built.cases[2].request.method = "update"

\* C2: createCommitTest returns one case per operation, in batch order, all
\* with the expectation of the call and the payload of their operation as
\* resource data (null without a payload); every case carries the same
\* functionMocks: the base mocks, then one exact-match getAfter mock per
\* operation of the whole batch, in batch order.
C2_OneCasePerOperation ==
    built.fn = "createCommitTest" =>
        LET n == Len(built.batch)
            base == createMockFunctions(built.root)
        IN  /\ Len(built.cases) = n
            /\ \A i \in 1..n :
                   LET case == built.cases[i]
                       operation == built.batch[i]
                   IN  /\ case.request.path = WirePrefix \o operation.document
                       /\ case.request.auth = built.auth
                       /\ case.expectation = (IF built.allow THEN "ALLOW" ELSE "DENY")
                       /\ case.resource.data =
                              (IF "data" \in DOMAIN operation THEN operation.data ELSE Null)
                       /\ case.functionMocks = built.cases[1].functionMocks
                       /\ Len(case.functionMocks) = Len(base) + n
                       /\ SubSeq(case.functionMocks, 1, Len(base)) = base
                       /\ \A j \in 1..n :
                              LET mock == case.functionMocks[Len(base) + j]
                              IN  /\ mock.function = "getAfter"
                                  /\ mock.args =
                                         <<[exact_value |->
                                               WirePrefix \o built.batch[j].document]>>

\* C2 witness: a denied batch of a delete and an update over the dataset of
\* four documents: two cases, each with the 11 base mocks and two getAfter
\* mocks.
C2_Witness ==
    /\ built.fn = "createCommitTest"
    /\ built.root = DataA
    /\ ~built.allow
    /\ built.batch = <<BatchDelete(PathUserA), BatchUpdate(PathUserA, Update1)>>
    /\ Len(built.cases) = 2
    /\ Len(built.cases[1].functionMocks) = 13
    /\ built.cases[1].resource.data = Null
    /\ built.cases[2].resource.data = Update1

\* The post-write state of one operation as the contract words it, from
\* the fields the dataset held when the call was made: the value of the
\* getAfter mock.
StatedAfter(operation, prior) ==
    CASE operation.method = "set" -> DataOf(operation.data)
      [] operation.method = "delete" -> Null
      [] operation.method = "update" ->
             DataOf(Obj(ApplyUpdate(IF prior = Null THEN EmptyObject ELSE prior.o,
                                    operation.data.o)))
      [] OTHER -> IF prior = Null THEN Null ELSE DataOf(prior)

\* C3: createBatchAfterFunctionMocks emits, for each operation, a getAfter
\* mock for the operation's wire path whose value is the post-write state:
\* the data of a set verbatim, null for a delete, the prior fields with the
\* keys of an update applied by dotted path and every other field at its
\* prior value, the prior fields for any other kind. The value is read as
\* the request carries it.
C3_AfterStateOfEachOperation ==
    built.fn = "createBatchAfterFunctionMocks" =>
        /\ Len(built.mocks) = Len(built.batch)
        /\ \A i \in DOMAIN built.batch :
               LET operation == built.batch[i]
                   mock == built.mocks[i]
               IN  /\ mock.function = "getAfter"
                   /\ mock.args = <<[exact_value |-> WirePrefix \o operation.document]>>
                   /\ Serialized(mock.result.value, heap) =
                          StatedAfter(operation,
                              FieldsAt(built.root, built.before, operation.document))

\* The same statement for the batches of one operation, where no other
\* write of the batch reaches the fields the mock refers to.
AfterStateOfSingleOperation ==
    (built.fn = "createBatchAfterFunctionMocks" /\ Len(built.batch) = 1) =>
        C3_AfterStateOfEachOperation

\* The data-model invariant of the contract: within one collection the
\* keys are unique, at every level; so are the names of sibling collections.
RECURSIVE UniqueKeys(_)
UniqueKeys(colls) ==
    /\ \A c, d \in DOMAIN colls : colls[c].name = colls[d].name => c = d
    /\ \A c \in DOMAIN colls :
           /\ \A i, j \in DOMAIN colls[c].docs :
                  colls[c].docs[i].key = colls[c].docs[j].key => i = j
           /\ \A i \in DOMAIN colls[c].docs : UniqueKeys(colls[c].docs[i].collections)

\* The mocks of functionName whose argument is exactly the wire path.
ExactMocks(mocks, functionName, wirePath) ==
    {j \in DOMAIN mocks : /\ mocks[j].function = functionName
                          /\ mocks[j].args = <<[exact_value |-> wirePath]>>}

\* What the oracle answers functionName(wirePath): the first exact match,
\* else the wildcard default.
Resolve(mocks, functionName, wirePath) ==
    IF ExactMocks(mocks, functionName, wirePath) # {}
    THEN mocks[CHOOSE j \in ExactMocks(mocks, functionName, wirePath) :
                   \A k \in ExactMocks(mocks, functionName, wirePath) : j <= k].result.value
    ELSE mocks[CHOOSE j \in DOMAIN mocks :
                   /\ mocks[j].function = functionName
                   /\ "anyValue" \in DOMAIN mocks[j].args[1]].result.value

\* Document paths asked of the mocks: those of the fixtures, and paths no
\* fixture holds.
ProbePaths ==
    Paths \cup { <<"users", Slash, "userB">>,
                 <<"users", Slash, "userB", Slash, "companies", Slash, "companyA">>,
                 <<"users", Slash, "nobody">>,
                 <<"users", Slash, "userA", Slash, "favorites", Slash, "none">>,
                 <<"users", Slash, "userC", Slash, "favorites", Slash, "fav1">>,
                 <<"teams", Slash, "userA">> }

\* C4: over a dataset with unique keys, the mocks of createMockFunctions
\* answer get(p) and exists(p) as the dataset does, for every document path
\* p: { data: fields } and true when hasDocument(p), null and false when
\* not; every document has one exact get mock and one exact exists mock.
C4_MocksRepresentDataset ==
    (built.fn = "createMockFunctions" /\ UniqueKeys(built.root)) =>
        \A p \in ProbePaths :
            /\ Serialized(Resolve(built.mocks, "get", WirePrefix \o p), built.before)
                   = (IF hasDocument(built.root, p)
                      THEN DataOf(FieldsAt(built.root, built.before, p))
                      ELSE Null)
            /\ Resolve(built.mocks, "exists", WirePrefix \o p)
                   = Bool(hasDocument(built.root, p))
            /\ \A functionName \in {"get", "exists"} :
                   Cardinality(ExactMocks(built.mocks, functionName, WirePrefix \o p))
                       = (IF hasDocument(built.root, p) THEN 1 ELSE 0)

\* C4 witness: the mocks of the dataset of four documents answer a nested
\* document with its fields and a missing one with the defaults.
C4_Witness ==
    /\ built.fn = "createMockFunctions"
    /\ built.root = DataA
    /\ Resolve(built.mocks, "get", WirePrefix \o PathFav1) = DataOf(Ref(2))
    /\ Resolve(built.mocks, "exists", WirePrefix \o PathFav1) = Bool(TRUE)
    /\ Resolve(built.mocks, "get", WirePrefix \o PathUserC) = Null
    /\ Resolve(built.mocks, "exists", WirePrefix \o PathUserC) = Bool(FALSE)

\* The number of documents of a tree, at every level.
RECURSIVE CountDocuments(_)
RECURSIVE CountInDocs(_)
CountInDocs(docs) ==
    IF Len(docs) = 0 THEN 0
    ELSE 1 + CountDocuments(Head(docs).collections) + CountInDocs(Tail(docs))

CountDocuments(colls) ==
    IF Len(colls) = 0 THEN 0
    ELSE CountInDocs(Head(colls).docs) + CountDocuments(Tail(colls))

\* C5: createMockFunctions returns 3 + 2N mocks for N documents: the
\* wildcard defaults get -> null, getAfter -> null, exists -> false, then a
\* get mock and an exists mock per document in the order of getDocuments.
C5_ThreePlusTwoPerDocument ==
    built.fn = "createMockFunctions" =>
        LET documents == AllDocuments(built.root)
            wildcard == <<[anyValue |-> Obj(EmptyObject)]>>
        IN  /\ Len(documents) = CountDocuments(built.root)
            /\ Len(built.mocks) = 3 + 2 * CountDocuments(built.root)
            /\ built.mocks[1] = [function |-> "get", args |-> wildcard,
                                 result |-> [value |-> Null]]
            /\ built.mocks[2] = [function |-> "getAfter", args |-> wildcard,
                                 result |-> [value |-> Null]]
            /\ built.mocks[3] = [function |-> "exists", args |-> wildcard,
                                 result |-> [value |-> Bool(FALSE)]]
            /\ \A k \in DOMAIN documents :
                   /\ built.mocks[2 + 2 * k] =
                          [function |-> "get",
                           args |-> <<[exact_value |-> WirePrefix \o documents[k].path]>>,
                           result |-> [value |-> DataOf(documents[k].doc.fields)]]
                   /\ built.mocks[3 + 2 * k] =
                          [function |-> "exists",
                           args |-> <<[exact_value |-> WirePrefix \o documents[k].path]>>,
                           result |-> [value |-> Bool(TRUE)]]

\* C5 witness: the dataset of four documents gives 11 mocks, the pair of a
\* nested document included.
C5_Witness ==
    /\ built.fn = "createMockFunctions"
    /\ CountDocuments(built.root) = 4
    /\ Len(built.mocks) = 11
    /\ built.mocks[8].args = <<[exact_value |-> WirePrefix \o PathFav1]>>

\* C6: createGetTest returns a case with expectation ALLOW or DENY after
\* the allow flag, request method get, request path the wire prefix followed
\* by the logical path, the auth given, resource data the current fields of
\* the document or null when it is absent, and the base mocks of
\* createMockFunctions as functionMocks, none of them an exact getAfter.
C6_GetCase ==
    built.fn = "createGetTest" =>
        /\ built.case.expectation = (IF built.allow THEN "ALLOW" ELSE "DENY")
        /\ built.case.request.method = "get"
        /\ built.case.request.path = WirePrefix \o built.path
        /\ built.case.request.auth = built.auth
        /\ Serialized(built.case.resource.data, heap)
               = FieldsAt(built.root, heap, built.path)
        /\ built.case.functionMocks = createMockFunctions(built.root)
        /\ \A j \in DOMAIN built.case.functionMocks :
               built.case.functionMocks[j].function = "getAfter" =>
                   "anyValue" \in DOMAIN built.case.functionMocks[j].args[1]

\* C6 witness: a denied get of a nested document with its fields, and the
\* 11 base mocks.
C6_Witness ==
    /\ built.fn = "createGetTest"
    /\ ~built.allow
    /\ built.path = PathFav1
    /\ built.root = DataA
    /\ built.case.expectation = "DENY"
    /\ built.case.resource.data = Ref(2)
    /\ Len(built.case.functionMocks) = 11

\* A get of an absent document: resource data null.
GetCaseOfAbsentDocument ==
    /\ built.fn = "createGetTest"
    /\ built.root = DataB
    /\ built.path = PathUserA
    /\ built.case.resource.data = Null

-----------------------------------------------------------------------------
(* Properties of the test calls (Spec)                                     *)

\* What the oracle answered call i.
ResultsOf(call) == call.response.with.json.testResults

\* The cases a call submitted: those of the array, or the one case given
\* in place of an array.
SubmittedCases(call) == IF call.array THEN call.testCases ELSE <<call.testCases>>

\* The summary of the call has success true exactly when every result has
\* state SUCCESS, and pairs the k-th of the cases with the k-th result.
Aggregates(call, cases) ==
    LET summary == call.value.summary
        results == ResultsOf(call)
    IN  /\ summary.success = (\A k \in DOMAIN results : results[k].state = "SUCCESS")
        /\ Len(summary.tests) = Len(results)
        /\ \A k \in DOMAIN results :
               /\ summary.tests[k].case = CaseAt(cases, k)
               /\ summary.tests[k].result = results[k]

\* C7: the TestSummary a call resolves with has success true exactly when
\* every result of the oracle has state SUCCESS, and its tests pair the
\* i-th submitted case with the i-th result, one pair per result.
C7_SummaryAggregates ==
    \A i \in DOMAIN calls :
        calls[i].promise = "resolved" => Aggregates(calls[i], SubmittedCases(calls[i]))

\* The same statement for the calls given an array of cases.
SummaryAggregatesCasesOfArray ==
    \A i \in DOMAIN calls :
        (calls[i].promise = "resolved" /\ calls[i].array) =>
            Aggregates(calls[i], calls[i].testCases)

\* A call of two cases resolved with a failure followed by a success:
\* success is false, the pairs in submission order.
TwoCasesPairedInOrder ==
    \E i \in DOMAIN calls :
        /\ calls[i].promise = "resolved"
        /\ calls[i].array
        /\ Len(calls[i].testCases) = 2
        /\ ResultsOf(calls[i]) = <<Failure, Success>>
        /\ calls[i].value.summary.success = FALSE
        /\ calls[i].value.summary.tests[2].case = calls[i].testCases[2]

\* A call given one case in place of an array resolves with a pair whose
\* case is undefined: the case has no property 0.
SummaryOfOneCaseHasNoCase ==
    \A i \in DOMAIN calls :
        (calls[i].promise = "resolved" /\ ~calls[i].array) =>
            /\ calls[i].request.resource.testSuite.testCases = calls[i].testCases
            /\ \A k \in DOMAIN calls[i].value.summary.tests :
                   calls[i].value.summary.tests[k].case = Undefined

\* The test of testRules was answered with one successful result.
OneCaseWasAnswered ==
    \E i \in DOMAIN calls :
        /\ calls[i].promise = "resolved"
        /\ ~calls[i].array
        /\ calls[i].testCases = CustomCase
        /\ calls[i].value.summary = [success |-> TRUE,
                                     tests |-> <<[case |-> Undefined, result |-> Success]>>]

\* The first pair of a summary whose result is not a success.
FirstFailing(summary) ==
    summary.tests[CHOOSE k \in DOMAIN summary.tests :
                      /\ summary.tests[k].result.state # "SUCCESS"
                      /\ \A j \in 1..(k - 1) : summary.tests[j].result.state = "SUCCESS"]

\* The message the contract gives the error of a failing pair.
StatedMessage(test) ==
    IF "debugMessages" \in DOMAIN test.result
    THEN JoinStrings(test.result.debugMessages, <<"\n\n">>)
    ELSE <<"Expected the ", test.case.request.method, " operation ",
           IF test.case.expectation = "ALLOW" THEN "to succeed" ELSE "to fail",
           ".">>

\* C8: assert applied to the TestSummary of a call does nothing when the
\* summary is successful; when it is not, it raises an error whose message
\* is taken from the first failing case: the debugMessages joined by a blank
\* line when present, else "Expected the <method> operation to succeed." for
\* ALLOW and "... to fail." for DENY.
C8_AssertOnSummary ==
    \A i \in DOMAIN calls :
        calls[i].asserted.done =>
            IF calls[i].value.summary.success
            THEN calls[i].asserted = Returned
            ELSE calls[i].asserted
                     = Threw("Error", StatedMessage(FirstFailing(calls[i].value.summary)))

\* What assert does with every summary: a summary has neither `state` nor
\* `test`, so the read of test.expectation raises a TypeError.
AssertOnSummaryRaisesTypeError ==
    \A i \in DOMAIN calls :
        calls[i].asserted.done =>
            /\ calls[i].asserted.threw
            /\ calls[i].asserted.type = "TypeError"

\* C9: while no handshake of authorize has succeeded, every test call is
\* rejected with the 'API client not authorized yet' error and sends no
\* request to the oracle.
C9_NoRequestWithoutClient ==
    handshakes.succeeded = 0 =>
        /\ client = NoClient
        /\ \A i \in DOMAIN calls :
               /\ ~calls[i].request.sent
               /\ calls[i].promise = "rejected"
               /\ calls[i].value = [settled |-> TRUE, error |-> NotAuthorizedError]

\* C9 witness: one handshake failed and its error was given to the caller,
\* another is still pending, and a canCommit call made meanwhile was
\* rejected without a request.
C9_Witness ==
    /\ handshakes = [started |-> 2, pending |-> 1, succeeded |-> 0]
    /\ authorized = [state |-> "rejected", error |-> AuthorizationError]
    /\ Len(calls) = 1
    /\ calls[1].op = "canCommit"
    /\ ~calls[1].request.sent
    /\ calls[1].value.error = NotAuthorizedError

\* Call i was answered by the oracle with issues.
AnsweredWithIssues(call) ==
    /\ call.response.answered
    /\ "json" \in DOMAIN call.response.with
    /\ "issues" \in DOMAIN call.response.with.json

\* C10: when the oracle answers a call with issues, the promise of the call
\* is rejected, neither resolved nor left unsettled, with one error whose
\* message lists "Line <L>, column <C>: <description>" for every issue.
C10_IssuesRejectTheCall ==
    \A i \in DOMAIN calls :
        AnsweredWithIssues(calls[i]) =>
            /\ calls[i].promise = "rejected"
            /\ calls[i].value = [settled |-> TRUE,
                                 error |-> IssuesMessage(calls[i].response.with.json.issues)]

\* What happens instead: the error is thrown out of the callback and the
\* promise stays pending, in this state and in every later one.
IssuesLeaveThePromisePending ==
    \A i \in DOMAIN calls :
        AnsweredWithIssues(calls[i]) =>
            /\ calls[i].promise = "pending"
            /\ calls[i].value = NoValue
            /\ calls[i].thrown = IssuesMessage(calls[i].response.with.json.issues)

-----------------------------------------------------------------------------
(* Properties of the lookups (SpecLookup)                                  *)

\* The sub-collections a document declares, none when it has no key for
\* them.
DeclaredCollections(doc) ==
    IF "collections" \in DOMAIN doc THEN doc.collections ELSE <<>>

\* name under prefix, joined by a slash.
Under(prefix, name) == IF prefix = <<>> THEN name ELSE prefix \o <<Slash>> \o name

\* The documents of a tree, each with the slash-join of its ancestor chain:
\* collection name, document key, sub-collection name, ..., own key.
RECURSIVE ChainEntries(_, _)
ChainEntries(colls, prefix) ==
    UNION { UNION { {[path |-> Under(Under(prefix, colls[c].name), colls[c].docs[i].key),
                      doc |-> colls[c].docs[i]]}
                    \cup ChainEntries(DeclaredCollections(colls[c].docs[i]),
                             Under(Under(prefix, colls[c].name), colls[c].docs[i].key))
                    : i \in DOMAIN colls[c].docs }
            : c \in DOMAIN colls }

\* The paths of the collections of a tree that hold a document.
CollectionPaths(root) ==
    { SubSeq(e.path, 1, Len(e.path) - Len(e.doc.key) - 1) : e \in ChainEntries(root, <<>>) }

\* One or more non-empty segments separated by single slashes.
WellFormed(path) ==
    /\ Len(path) > 0
    /\ \A i \in DOMAIN SplitString(path, Slash) : SplitString(path, Slash)[i] # <<>>

\* The call held asks for a well-formed path that names nothing in the
\* dataset: no document for getDocument and hasDocument, no collection for
\* getCollection.
AsksMissingPath ==
    /\ built.fn \in {"getCollection", "getDocument", "hasDocument"}
    /\ WellFormed(built.path)
    /\ IF built.fn = "getCollection"
       THEN built.path \notin CollectionPaths(built.root)
       ELSE \A e \in ChainEntries(built.root, <<>>) : e.path # built.path

\* What a lookup of a missing path is to give: absent, false, an empty
\* sequence.
AbsentFor(fn) ==
    CASE fn = "getDocument" -> [threw |-> FALSE, value |-> Undefined]
      [] fn = "hasDocument" -> [threw |-> FALSE, value |-> Bool(FALSE)]
      [] fn = "getCollection" -> [threw |-> FALSE, value |-> Arr(<<>>)]

\* C11: for every well-formed path that names no document, at any depth
\* and with missing ancestors, getDocument returns absent, hasDocument
\* false and getCollection an empty sequence, none raising an error.
C11_MissingPathsNeverFail ==
    AsksMissingPath => built.gave = AbsentFor(built.fn)

\* Some segment of the path is the name of a property of Object.prototype.
HasPrototypeSegment(path) ==
    \E i \in DOMAIN SplitString(path, Slash) : SplitString(path, Slash)[i] \in PrototypeNames

\* The same statement for the paths with no such segment, over the
\* datasets whose documents all declare their collections.
MissingPlainPathsNeverFail ==
    (AsksMissingPath /\ built.root \in Datasets /\ ~HasPrototypeSegment(built.path))
        => built.gave = AbsentFor(built.fn)

\* In a well-typed dataset, a path through the name of a property of
\* Object.prototype makes getDocument raise a TypeError.
PrototypeSegmentRaises ==
    (built.fn = "getDocument" /\ built.root = DataA
        /\ built.path = <<"constructor", Slash, "x">>)
        => built.gave = [threw |-> TRUE, error |-> "TypeError"]

\* The entries of a sequence, as a set.
Range(seq) == {seq[i] : i \in DOMAIN seq}

\* C12: for every finite dataset getDocuments() returns one entry per
\* document of every level and no other: the path of an entry is the
\* slash-join of the document's ancestor chain, its doc the fixture
\* document itself, and there are as many entries as documents.
C12_OneEntryPerDocument ==
    built.fn = "getDocuments" =>
        /\ ~built.gave.threw
        /\ Len(built.gave.value) = CountDocuments(built.root)
        /\ Range(built.gave.value) = ChainEntries(built.root, <<>>)

\* The same statement for the datasets whose documents declare their
\* collections and whose keys are plain names.
OneEntryPerDocumentOfPlainKeys ==
    (built.fn = "getDocuments" /\ built.root \in Datasets) =>
        /\ ~built.gave.threw
        /\ Len(built.gave.value) = CountDocuments(built.root)
        /\ Range(built.gave.value) = ChainEntries(built.root, <<>>)

\* With the keys '..' and '', the paths listed are '.' and 'users', which
\* Path.join makes of 'users/..' and 'users/'.
OddKeysAreNormalizedAway ==
    (built.fn = "getDocuments" /\ built.root = DataOddKeys) =>
        /\ ~built.gave.threw
        /\ {e.path : e \in Range(built.gave.value)} = { <<Dot>>, <<"users">> }

\* The documents of a tree that have no `collections` key, with their
\* paths.
Undeclared(root) == {e \in ChainEntries(root, <<>>) : "collections" \notin DOMAIN e.doc}

\* path lies below the document at docPath.
Below(path, docPath) ==
    /\ Len(path) > Len(docPath) + 1
    /\ SubSeq(path, 1, Len(docPath) + 1) = docPath \o <<Slash>>

\* The call held looks up a path below a document with no `collections`
\* key.
AsksBelowUndeclared ==
    /\ built.fn \in {"getCollection", "getDocument", "hasDocument"}
    /\ WellFormed(built.path)
    /\ \E e \in Undeclared(built.root) : Below(built.path, e.path)

\* C18: a document with no `collections` key counts as one with no
\* sub-collections: getCollection, getDocument and hasDocument on a path
\* below it give an empty sequence, absent and false without raising, and
\* getDocuments returns, listing that document once and nothing below it.
C18_UndeclaredCollectionsAreEmpty ==
    /\ AsksBelowUndeclared => built.gave = AbsentFor(built.fn)
    /\ (built.fn = "getDocuments" /\ Undeclared(built.root) # {}) =>
           /\ ~built.gave.threw
           /\ Range(built.gave.value) = ChainEntries(built.root, <<>>)
           /\ Len(built.gave.value) = CountDocuments(built.root)

\* The number of segments of path below the document at docPath.
SegmentsBelow(path, docPath) ==
    Len(SplitString(path, Slash)) - Len(SplitString(docPath, Slash))

\* What happens instead: getCollection of a sub-collection of such a
\* document, and getDocument and hasDocument of a document of one, raise
\* a TypeError, reading a property of undefined.
LookupBelowUndeclaredRaises ==
    (/\ AsksBelowUndeclared
     /\ \E e \in Undeclared(built.root) :
            /\ Below(built.path, e.path)
            /\ SegmentsBelow(built.path, e.path)
                   = IF built.fn = "getCollection" THEN 1 ELSE 2)
        => built.gave = [threw |-> TRUE, error |-> "TypeError"]

\* What happens instead: the recursion of getDocuments takes the default
\* of its first parameter, the root, and does not end but by the overflow
\* of the stack.
EnumerationOfUndeclaredOverflows ==
    (built.fn = "getDocuments" /\ Undeclared(built.root) # {}) =>
        built.gave = [threw |-> TRUE, error |-> "RangeError"]

\* The document itself is found.
UndeclaredDocumentIsFound ==
    (built.fn = "getDocument" /\ built.root = DataNoCollections
        /\ built.path = <<"users", Slash, "userD">>)
        => built.gave = [threw |-> FALSE, value |-> DataNoCollections[1].docs[1]]

\* Within every collection of the tree the keys are unique, and no key
\* holds a slash.
RECURSIVE UniqueSlashFreeKeys(_)
UniqueSlashFreeKeys(colls) ==
    \A c \in DOMAIN colls :
        /\ \A i, j \in DOMAIN colls[c].docs :
               colls[c].docs[i].key = colls[c].docs[j].key => i = j
        /\ \A i \in DOMAIN colls[c].docs :
               /\ \A k \in DOMAIN colls[c].docs[i].key : colls[c].docs[i].key[k] # Slash
               /\ UniqueSlashFreeKeys(DeclaredCollections(colls[c].docs[i]))

\* The first document of docs with the key.
FirstOfKey(docs, key) ==
    docs[CHOOSE i \in DOMAIN docs :
             /\ docs[i].key = key
             /\ \A j \in 1..(i - 1) : docs[j].key # key]

\* getDocument of the path of a document of a root collection gives the
\* first document of that collection with the key.
FirstMatchWins ==
    built.fn = "getDocument" =>
        \A c \in DOMAIN built.root :
            \A i \in DOMAIN built.root[c].docs :
                built.path = built.root[c].name \o <<Slash>> \o built.root[c].docs[i].key
                    => built.gave = [threw |-> FALSE,
                                     value |-> FirstOfKey(built.root[c].docs,
                                                          built.root[c].docs[i].key)]

\* Every entry of the enumeration held is found by getDocument and
\* hasDocument at its path.
EntriesAreFound ==
    built.fn = "getDocuments" =>
        /\ ~built.gave.threw
        /\ \A k \in DOMAIN built.gave.value :
               /\ getDocument(built.root, built.gave.value[k].path) = built.gave.value[k].doc
               /\ HasDocumentGave(getDocument(built.root, built.gave.value[k].path))
                      = [threw |-> FALSE, value |-> Bool(TRUE)]

\* The path hasDocument held true for is the path of exactly one entry of
\* the enumeration.
FoundAreEntries ==
    (built.fn = "hasDocument" /\ built.gave = [threw |-> FALSE, value |-> Bool(TRUE)]) =>
        LET listed == GetDocumentsGave(AllDocuments(built.root))
        IN  /\ ~listed.threw
            /\ Cardinality({k \in DOMAIN listed.value :
                               listed.value[k].path = built.path}) = 1

\* C20: on every dataset whose keys are unique within each collection and
\* hold no slash, each entry {path, doc} of getDocuments() is the doc
\* getDocument(path) returns, with hasDocument(path) true, and each path
\* hasDocument is true for is the path of exactly one entry; with
\* duplicate keys getDocument returns the first document with the key.
C20_EnumerationAndLookupAgree ==
    /\ FirstMatchWins
    /\ (built # NothingBuilt /\ UniqueSlashFreeKeys(built.root)) =>
           (EntriesAreFound /\ FoundAreEntries)

\* The same statement for the datasets whose documents declare their
\* collections and whose keys are plain names.
EnumerationAndLookupAgreeOnPlainKeys ==
    /\ FirstMatchWins
    /\ (built # NothingBuilt /\ built.root \in Datasets /\ UniqueSlashFreeKeys(built.root)) =>
           (EntriesAreFound /\ FoundAreEntries)

\* With the key '..', hasDocument is true for 'users/..', which is the
\* path of no entry.
OddKeyIsFoundButNotListed ==
    (built.fn = "hasDocument" /\ built.root = DataOddKeys
        /\ built.path = <<"users", Slash, DotDot>>) =>
        /\ built.gave = [threw |-> FALSE, value |-> Bool(TRUE)]
        /\ \A k \in DOMAIN AllDocuments(built.root) :
               AllDocuments(built.root)[k].path # built.path

\* With the key '..', the entry listed for it has the path '.', at which
\* getDocument finds nothing.
OddKeyIsListedButNotFound ==
    (built.fn = "getDocuments" /\ built.root = DataOddKeys) =>
        \E k \in DOMAIN built.gave.value :
            /\ built.gave.value[k].path = <<Dot>>
            /\ built.gave.value[k].doc.key = <<DotDot>>
            /\ getDocument(built.root, <<Dot>>) = Undefined

-----------------------------------------------------------------------------
(* Properties of authorize (Spec)                                          *)

\* C13: once the client handle exists, a call of authorize completes
\* successfully without a handshake and leaves the handle, the dataset and
\* the rules as they are.
C13_AuthorizeMemoized ==
    [][(client # NoClient /\ Authorize) =>
           /\ authorized' = [state |-> "resolved", handshake |-> FALSE]
           /\ handshakes' = handshakes
           /\ client' = client
           /\ collections' = collections
           /\ rules' = rules]_vars

\* C13 witness: one handshake was ever started, it made the client, and a
\* later authorize resolved without another.
C13_Witness ==
    /\ client # NoClient
    /\ handshakes = [started |-> 1, pending |-> 0, succeeded |-> 1]
    /\ authorized = [state |-> "resolved", handshake |-> FALSE]


-----------------------------------------------------------------------------
(* The singleton before its first authorize                                *)

\* The functions of the singleton that fail on the null database, and
\* what each of them gives then.
SingletonFailures ==
    {[fn |-> fn, gave |-> SetterThrew(fn)] : fn \in {"setData", "setRules"}}
        \cup {[fn |-> fn, gave |-> NotInitialized] :
                  fn \in {"canGet", "cannotGet", "canSet", "cannotSet"}}

\* C14: while the singleton's database is null, that is before the first
\* authorize(credential), every setData, setRules, canGet, cannotGet,
\* canSet and cannotSet ends with an initialization error, and none of
\* them changed anything: no data, no rules, no client, no handshake, no
\* request.
C14_FailsBeforeAuthorize ==
    database = NoDatabase =>
        /\ built = NothingBuilt \/ built \in SingletonFailures
        /\ collections = DataEmpty
        /\ rules = ""
        /\ client = NoClient
        /\ heap = InitHeap
        /\ handshakes = [started |-> 0, pending |-> 0, succeeded |-> 0]
        /\ calls = <<>>

\* C14 witness: canSet was called on the null database and rejected.
C14_Witness ==
    /\ database = NoDatabase
    /\ built = [fn |-> "canSet", gave |-> NotInitialized]

\* setData was called on the null database and threw.
SetDataThrewBeforeAuthorize ==
    /\ database = NoDatabase
    /\ built = [fn |-> "setData", gave |-> SetterThrew("setData")]

-----------------------------------------------------------------------------
(* Re-authorizing the singleton                                            *)

\* C15: once the singleton holds a Database it always holds one, and its
\* data change only by setData and its rules only by setRules: authorize
\* again, and the answer of its handshake, with or without an error,
\* leave both as last set.
C15_ReauthorizeKeepsConfiguration ==
    [][database # NoDatabase =>
           /\ database' # NoDatabase
           /\ collections' # collections =>
                  \E data \in {DataA, DataB} : SingletonSetData(data)
           /\ rules' # rules =>
                  \E source \in {Rules1, Rules2} : SingletonSetRules(source)]_vars

\* C15 witness: data and rules were set, the singleton was authorized a
\* second time, that handshake failed, and both are still there.
C15_Witness ==
    /\ database = [made |-> 2, stale |-> 0]
    /\ handshakes.pending = 0
    /\ authorized = [state |-> "rejected", error |-> AuthorizationError]
    /\ collections = DataA
    /\ rules = Rules2



-----------------------------------------------------------------------------
(* Calls snapshot the data and the rules                                   *)

\* The cases the calls of the overlapping runs make from a dataset.
CasesFrom(colls, h) ==
    { <<createGetTest(colls, TRUE, EmptyAuth, PathUserA)>>,
      createCommitTest(colls, h, FALSE, EmptyAuth, <<BatchSet(PathUserC, SetData1)>>).cases,
      createCommitTest(colls, h, TRUE, EmptyAuth, <<BatchUpdate(PathUserA, Update1)>>).cases,
      createCommitTest(colls, h, TRUE, EmptyAuth, OverlapBatch).cases }

\* The rules a request carries.
RulesSent(request) == request.resource.source.files[1].content

\* The call a step adds is built from the data and rules of the state it
\* was invoked in, and its request is the serialization of its cases.
BuiltFromCurrent ==
    Len(calls') = Len(calls) + 1 =>
        LET call == calls'[Len(calls')]
        IN  /\ call.testCases \in CasesFrom(collections, heap)
            /\ call.request = TestParams(rules, call.testCases, heap')

\* A step that drops no call leaves the request and the cases of every
\* call as they were.
CallsKeepTheirRequest ==
    Len(calls') >= Len(calls) =>
        \A i \in DOMAIN calls :
            /\ calls'[i].request = calls[i].request
            /\ calls'[i].testCases = calls[i].testCases
            /\ calls[i].promise = "resolved" => calls'[i].value = calls[i].value

\* Every resolved call has the summary of its own cases and results.
OwnSummaries ==
    \A i \in DOMAIN calls :
        calls[i].promise = "resolved" =>
            calls[i].value.summary =
                TestSummary(calls[i].testCases, calls[i].response.with.json.testResults)

\* C16: a call's request is built from the collections and rules current
\* when the call is invoked; nothing that happens later, a setData, a
\* setRules or another call, changes the request sent or the cases of the
\* call; and with several calls in flight each resolves with the summary
\* of its own cases and its own results.
C16_CallsSnapshotDataAndRules ==
    /\ [][BuiltFromCurrent /\ CallsKeepTheirRequest]_vars
    /\ []OwnSummaries

\* C16 witness: two calls overlapped, the first made with the data and
\* rules of the start, the second after a setData and a setRules; both
\* are answered, with different results, and each holds its own.
C16_Witness ==
    /\ Len(calls) = 2
    /\ collections = DataB /\ rules = Rules2
    /\ calls[1].op = "canGet" /\ calls[2].op = "canCommit"
    /\ RulesSent(calls[1].request) = Rules1
    /\ RulesSent(calls[2].request) = Rules2
    /\ calls[1].testCases = <<createGetTest(DataA, TRUE, EmptyAuth, PathUserA)>>
    /\ calls[1].promise = "resolved" /\ calls[2].promise = "resolved"
    /\ calls[1].value.summary.tests[1].result = Failure
    /\ calls[2].value.summary.tests[1].result = Success
    /\ calls[2].value.summary.tests[2].case = calls[2].testCases[2]



-----------------------------------------------------------------------------
(* The Batch factories and the calls of one operation                      *)

\* The payloads the calls are made with.
Payloads == {SetData1, SetData2, Update1, Update2}

\* set, update and delete return the tagged operations, delete without a
\* data property.
TaggedOperations ==
    \A path \in Paths :
        /\ BatchDelete(path) = [method |-> "delete", document |-> path]
        /\ \A data \in Payloads :
               /\ BatchSet(path, data) =
                      [method |-> "set", document |-> path, data |-> data]
               /\ BatchUpdate(path, data) =
                      [method |-> "update", document |-> path, data |-> data]

\* What canSet, cannotSet, canUpdate and cannotUpdate stand for: the
\* expectation, the tag of the operation and the payload given.
OneOperationCalls ==
    ("canSet" :> [allow |-> TRUE, method |-> "set", data |-> SetData1])
        @@ ("cannotSet" :> [allow |-> FALSE, method |-> "set", data |-> SetData1])
        @@ ("canUpdate" :> [allow |-> TRUE, method |-> "update", data |-> Update1])
        @@ ("cannotUpdate" :> [allow |-> FALSE, method |-> "update", data |-> Update1])

\* The call is what canCommit or cannotCommit makes of the batch of the
\* one tagged operation, and leaves the heap as that does.
SameAsCommit(call, stands) ==
    \E auth \in CallAuths, path \in CallPaths :
        LET made == createCommitTest(collections, heap, stands.allow, auth,
                        <<[method |-> stands.method, document |-> path,
                           data |-> stands.data]>>)
        IN  /\ call.testCases = made.cases
            /\ heap' = made.heap
            /\ call.testCases[1].expectation = Expectation(stands.allow)
            /\ call.testCases[1].request.path = createDocumentPath(path)

\* C17: Batch.set, Batch.update and Batch.delete return the operations
\* tagged 'set', 'update' and 'delete' with the document and, but for
\* delete, the data; and a canSet, cannotSet, canUpdate or cannotUpdate
\* call is canCommit or cannotCommit of the batch holding that one
\* operation: one case, its resource data the data given.
C17_FactoriesAndOneOperationCalls ==
    [][/\ TaggedOperations
       /\ (Len(calls') = Len(calls) + 1
               /\ calls'[Len(calls')].op \in DOMAIN OneOperationCalls) =>
              LET call == calls'[Len(calls')]
                  stands == OneOperationCalls[call.op]
              IN  /\ Len(call.testCases) = 1
                  /\ call.testCases[1].resource.data = stands.data
                  /\ SameAsCommit(call, stands)]_vars

\* C17 witness: canUpdate was called on users/userA: one case of method
\* update whose resource data is the payload.
C17_Witness ==
    /\ Len(calls) = 1
    /\ calls[1].op = "canUpdate"
    /\ Len(calls[1].testCases) = 1
    /\ calls[1].testCases[1].request.method = "update"
    /\ calls[1].testCases[1].resource.data = Update1

\* canSet was called on a path with no document: one case of method
\* create whose resource data is the payload.
CanSetOfAbsentDocument ==
    /\ Len(calls) = 1
    /\ calls[1].op = "canSet"
    /\ calls[1].testCases[1].request.method = "create"
    /\ calls[1].testCases[1].resource.data = SetData1



-----------------------------------------------------------------------------
(* The dataset under the test calls                                        *)

\* C19: building or running a test never modifies the dataset: the tree
\* changes by setData only, and no step, whatever call it makes, changes
\* the fields of a document, so that the same call made again is built
\* from the same fields.
C19_TestsNeverModifyDataset ==
    [][/\ collections' # collections => \E data \in Datasets : SetData(data)
       /\ heap' = heap]_vars

\* The steps that change the fields of a document are the calls whose
\* batch holds an update.
OnlyUpdatesWriteToTheDataset ==
    [][heap' # heap =>
           /\ Len(calls') = Len(calls) + 1
           /\ calls'[Len(calls')].op \in
                  {"canUpdate", "cannotUpdate", "canCommit", "cannotCommit"}
           /\ \E k \in DOMAIN calls'[Len(calls')].testCases :
                  calls'[Len(calls')].testCases[k].request.method = "update"]_vars

\* canUpdate(auth, 'users/userA', {'a.b': 9}) was called, and the fields
\* of users/userA in the dataset now have a.b = 9.
UpdateWroteToTheDataset ==
    /\ Len(calls) = 1
    /\ calls[1].op = "canUpdate"
    /\ collections = DataA
    /\ FieldsAt(collections, InitHeap, PathUserA).o[<<"a">>].o[<<"b">>] = Num(1)
    /\ FieldsAt(collections, heap, PathUserA).o[<<"a">>].o[<<"b">>] = Num(9)


=============================================================================
